---------------------------- MODULE Spec2Model ----------------------------
(***************************************************************************)
(* isfastlyip: a Compute handler that answers "is this address one of the  *)
(* provider's published ranges?".  The model follows src/main.rs: the      *)
(* method check, the shape regex, the backend request with a one week      *)
(* ttl, the json body, the strict address parse and the lazy loop over     *)
(* the CIDR entries of the candidate's family.                             *)
(*                                                                         *)
(* Texts (paths, CIDR entries) are strings; a position is the 1-based      *)
(* index of the next character to read.  Addresses are sequences of        *)
(* groups, most significant first: 4 octets for IPv4, 8 words of 16 bits   *)
(* for IPv6, so that the order on addresses is the lexicographic one.      *)
(***************************************************************************)
EXTENDS Integers, Sequences, FiniteSets, Bags, TLC

(***************************************************************************)
(* Characters and numbers                                                  *)
(***************************************************************************)
Ch(s, i) == SubSeq(s, i, i)

DecChars == <<"0", "1", "2", "3", "4", "5", "6", "7", "8", "9">>
LowerHexChars == <<"a", "b", "c", "d", "e", "f">>
UpperHexChars == <<"A", "B", "C", "D", "E", "F">>

IndexOf(c, chars) ==
    IF \E i \in 1..Len(chars) : chars[i] = c
    THEN CHOOSE i \in 1..Len(chars) : chars[i] = c
    ELSE 0

\* char::to_digit(radix) for radix 10 and 16: the digit's value, or -1.
ToDigit(c, radix) ==
    IF IndexOf(c, DecChars) > 0 THEN IndexOf(c, DecChars) - 1
    ELSE IF radix = 16 /\ IndexOf(c, LowerHexChars) > 0 THEN 9 + IndexOf(c, LowerHexChars)
    ELSE IF radix = 16 /\ IndexOf(c, UpperHexChars) > 0 THEN 9 + IndexOf(c, UpperHexChars)
    ELSE -1

RECURSIVE CountDigits(_, _, _)
\* The number of consecutive digits of the radix from position p on.
CountDigits(s, p, radix) ==
    IF p <= Len(s) /\ ToDigit(Ch(s, p), radix) >= 0
    THEN 1 + CountDigits(s, p + 1, radix)
    ELSE 0

RECURSIVE DigitsValue(_, _, _, _)
\* The value of the n digits that start at position p.
DigitsValue(s, p, n, radix) ==
    IF n = 0 THEN 0
    ELSE DigitsValue(s, p, n - 1, radix) * radix + ToDigit(Ch(s, p + n - 1), radix)

Failed == [ok |-> FALSE, val |-> <<>>, pos |-> 0]
Read(v, p) == [ok |-> TRUE, val |-> v, pos |-> p]

\* The overflow check of read_number: a value of upto or more fails.
CheckedValue(v, upto, p) == IF v >= upto THEN Failed ELSE Read(v, p)

\* read_number once its n digits are counted: none, more than maxDigits,
\* or (unless allowed) a zero before other digits, fail the read.
ReadDigits(s, p, n, radix, maxDigits, upto, allowZeroPrefix) ==
    IF n = 0 \/ n > maxDigits THEN Failed
    ELSE IF ~allowZeroPrefix /\ Ch(s, p) = "0" /\ n > 1 THEN Failed
    ELSE CheckedValue(DigitsValue(s, p, n, radix), upto, p + n)

\* Parser::read_number: all the digits at p are consumed.
ReadNumber(s, p, radix, maxDigits, upto, allowZeroPrefix) ==
    ReadDigits(s, p, CountDigits(s, p, radix), radix, maxDigits, upto, allowZeroPrefix)

ReadGivenChar(s, p, c) ==
    IF p <= Len(s) /\ Ch(s, p) = c THEN Read(c, p + 1) ELSE Failed

\* An octet is a number below 256 of at most three digits.
OctetLimit == 256
OctetDigits == 3

RECURSIVE ReadOctets(_, _, _, _, _)
AfterOctet(s, i, acc, allowZeroPrefix, oct) ==
    IF ~oct.ok THEN Failed
    ELSE ReadOctets(s, oct.pos, i + 1, Append(acc, oct.val), allowZeroPrefix)

AfterDot(s, i, acc, allowZeroPrefix, dot) ==
    IF ~dot.ok THEN Failed
    ELSE AfterOctet(s, i, acc, allowZeroPrefix,
                    ReadNumber(s, dot.pos, 10, OctetDigits, OctetLimit, allowZeroPrefix))

\* Parser::read_ipv4_addr: four decimal octets separated by dots.
ReadOctets(s, p, i, acc, allowZeroPrefix) ==
    IF i = 4 THEN Read(acc, p)
    ELSE AfterDot(s, i, acc, allowZeroPrefix,
                  IF i = 0 THEN Read(".", p) ELSE ReadGivenChar(s, p, "."))

ReadIpv4Addr(s, p, allowZeroPrefix) == ReadOctets(s, p, 0, <<>>, allowZeroPrefix)

\* read_separator(':', i, inner): the separator before every group but the
\* first; 0 when it is missing.
SeparatorPos(s, p, i) ==
    IF i = 0 THEN p
    ELSE IF ReadGivenChar(s, p, ":").ok THEN p + 1 ELSE 0

\* A group is a hexadecimal number below 2^16 of at most four digits.
SegmentLimit == 65536
SegmentDigits == 4

\* What read_groups returns: the groups read, where the read ended, and
\* whether it ended on an embedded IPv4 address.
GroupsRead(acc, p, v4) == [val |-> acc, pos |-> p, v4 |-> v4]

\* u16::from_be_bytes of the octets of an embedded IPv4 address.
Ipv4Groups(o) == << o[1] * OctetLimit + o[2], o[3] * OctetLimit + o[4] >>

RECURSIVE ReadGroups(_, _, _, _, _)
AfterGroup(s, p, limit, i, acc, grp) ==
    IF grp.ok THEN ReadGroups(s, grp.pos, limit, i + 1, Append(acc, grp.val))
    ELSE GroupsRead(acc, p, FALSE)

AfterEmbedded(s, p, limit, i, acc, q, ip4) ==
    IF ip4.ok THEN GroupsRead(acc \o Ipv4Groups(ip4.val), ip4.pos, TRUE)
    ELSE AfterGroup(s, p, limit, i, acc,
                    IF q > 0 THEN ReadNumber(s, q, 16, SegmentDigits, SegmentLimit, TRUE)
                    ELSE Failed)

AfterSeparator(s, p, limit, i, acc, q) ==
    AfterEmbedded(s, p, limit, i, acc, q,
                  IF q > 0 /\ i < limit - 1 THEN ReadIpv4Addr(s, q, FALSE) ELSE Failed)

\* read_groups of Parser::read_ipv6_addr: up to limit groups of 16 bits,
\* the last two of which may be written as an embedded IPv4 address (tried
\* first, while two groups are left); a group that cannot be read ends the
\* read before its separator.
ReadGroups(s, p, limit, i, acc) ==
    IF i >= limit THEN GroupsRead(acc, p, FALSE)
    ELSE AfterSeparator(s, p, limit, i, acc, SeparatorPos(s, p, i))

Zeros(n) == [k \in 1..n |-> 0]

\* The tail is copied to the end of the eight groups.
AfterTail(head, tail) ==
    Read(head.val \o Zeros(8 - Len(head.val) - Len(tail.val)) \o tail.val, tail.pos)

AfterHead(s, head) ==
    IF Len(head.val) = 8 THEN Read(head.val, head.pos)
    ELSE IF head.v4 THEN Failed
    ELSE IF ~(ReadGivenChar(s, head.pos, ":").ok /\ ReadGivenChar(s, head.pos + 1, ":").ok)
         THEN Failed
    ELSE AfterTail(head, ReadGroups(s, head.pos + 2, 8 - (Len(head.val) + 1), 0, <<>>))

\* Parser::read_ipv6_addr: eight groups, or a head and a tail around "::"
\* that stands for one group of zeros at least.
ReadIpv6Addr(s, p) == AfterHead(s, ReadGroups(s, p, 8, 0, <<>>))

\* The longest textual IPv4 address, "255.255.255.255".
MaxIpv4Text == 15

NotAnAddress == [family |-> "none", groups |-> <<>>]

\* parse_with: the read must end at the end of the text.
WholeAddr(s, r, family) ==
    IF r.ok /\ r.pos = Len(s) + 1 THEN [family |-> family, groups |-> r.val]
    ELSE NotAnAddress

\* str::parse::<Ipv4Addr>: the whole text is one dotted quad, no octet
\* written with a leading zero.
ParseIpv4Addr(s) ==
    IF Len(s) > MaxIpv4Text THEN NotAnAddress
    ELSE WholeAddr(s, ReadIpv4Addr(s, 1, FALSE), "v4")

\* str::parse::<Ipv6Addr>: the whole text is one IPv6 address.
ParseIpv6Addr(s) == WholeAddr(s, ReadIpv6Addr(s, 1), "v6")

(***************************************************************************)
(* Networks: ipnet's Ipv4Net and Ipv6Net                                   *)
(***************************************************************************)
\* Bits of one group: an octet of an Ipv4Addr, a segment of an Ipv6Addr.
OctetBits == 8
SegmentBits == 16

RECURSIVE Pow2(_)
Pow2(n) == IF n = 0 THEN 1 ELSE 2 * Pow2(n - 1)

RECURSIVE BitAnd(_, _, _)
\* a & b on w bits.
BitAnd(a, b, w) ==
    IF w = 0 THEN 0
    ELSE 2 * BitAnd(a \div 2, b \div 2, w - 1) + (IF a % 2 = 1 /\ b % 2 = 1 THEN 1 ELSE 0)

RECURSIVE BitOr(_, _, _)
\* a | b on w bits.
BitOr(a, b, w) ==
    IF w = 0 THEN 0
    ELSE 2 * BitOr(a \div 2, b \div 2, w - 1) + (IF a % 2 = 1 \/ b % 2 = 1 THEN 1 ELSE 0)

\* How many of the prefix_len leading bits fall in group g of w bits.
BitsInGroup(prefix_len, g, w) ==
    LET k == prefix_len - (g - 1) * w IN
    IF k < 0 THEN 0 ELSE IF k > w THEN w ELSE k

\* netmask(): prefix_len leading ones; hostmask(): its complement.
Netmask(prefix_len, n, w) ==
    [g \in 1..n |-> Pow2(w) - Pow2(w - BitsInGroup(prefix_len, g, w))]
Hostmask(prefix_len, n, w) ==
    [g \in 1..n |-> Pow2(w - BitsInGroup(prefix_len, g, w)) - 1]

GroupBits(family) == IF family = "v4" THEN OctetBits ELSE SegmentBits

AndGroups(a, m, w) == [g \in 1..Len(a) |-> BitAnd(a[g], m[g], w)]
OrGroups(a, m, w) == [g \in 1..Len(a) |-> BitOr(a[g], m[g], w)]

NetworkKeepsHostBits(net) == net.addr

\* network(): addr & netmask.
Network(net) ==
    AndGroups(net.addr, Netmask(net.prefix_len, Len(net.addr), GroupBits(net.family)),
              GroupBits(net.family))

\* broadcast(): addr | hostmask.
Broadcast(net) ==
    OrGroups(net.addr, Hostmask(net.prefix_len, Len(net.addr), GroupBits(net.family)),
             GroupBits(net.family))

RECURSIVE LeqFrom(_, _, _)
LeqFrom(a, b, g) ==
    IF g > Len(a) THEN TRUE
    ELSE IF a[g] < b[g] THEN TRUE
    ELSE IF a[g] > b[g] THEN FALSE
    ELSE LeqFrom(a, b, g + 1)

\* The order of Ipv4Addr and Ipv6Addr: that of the numbers they write.
AddrLeq(a, b) == LeqFrom(a, b, 1)

\* Contains<&Ipv4Addr> for Ipv4Net, Contains<&Ipv6Addr> for Ipv6Net.
Contains(net, ip) ==
    AddrLeq(Network(net), ip.groups) /\ AddrLeq(ip.groups, Broadcast(net))

NotANet == [ok |-> FALSE, family |-> "none", addr |-> <<>>, prefix_len |-> 0]

\* The largest prefix lengths, and the digits a prefix length is read in.
MaxIpv4PrefixLen == 32
MaxIpv6PrefixLen == 128

\* The network once its address, slash and prefix length are read: the
\* address is kept as written, and nothing may follow the prefix length.
NetRead(s, family, a, n) ==
    IF n.ok /\ n.pos = Len(s) + 1
    THEN [ok |-> TRUE, family |-> family, addr |-> a.val, prefix_len |-> n.val]
    ELSE NotANet

AfterSlash(s, family, a, sl, digits, upto) ==
    NetRead(s, family, a, IF sl.ok THEN ReadNumber(s, sl.pos, 10, digits, upto, TRUE) ELSE Failed)

AfterAddr(s, family, a, digits, upto) ==
    AfterSlash(s, family, a, IF a.ok THEN ReadGivenChar(s, a.pos, "/") ELSE Failed, digits, upto)

\* str::parse::<Ipv4Net>: an address, a slash and a prefix length of at
\* most 32 in at most two digits.
ParseIpv4Net(s) == AfterAddr(s, "v4", ReadIpv4Addr(s, 1, TRUE), 2, MaxIpv4PrefixLen + 1)

\* str::parse::<Ipv6Net>: the same with a prefix length of at most 128 in
\* at most three digits.
ParseIpv6Net(s) == AfterAddr(s, "v6", ReadIpv6Addr(s, 1), 3, MaxIpv6PrefixLen + 1)

(***************************************************************************)
(* The shape filter: the regular expression re_ip46, matched by following  *)
(* the set of positions each piece of it can end at.                       *)
(***************************************************************************)
RangeOf(chars) == {chars[i] : i \in 1..Len(chars)}
ClassDigit == RangeOf(DecChars)
ClassHex == RangeOf(DecChars) \cup RangeOf(LowerHexChars)
ClassHexColon == ClassHex \cup {":"}

\* One character of the class.
StepClass(s, P, class) == {p + 1 : p \in {q \in P : q <= Len(s) /\ Ch(s, q) \in class}}

\* "." : one character that is not a line feed.
StepAny(s, P) == {p + 1 : p \in {q \in P : q <= Len(s) /\ Ch(s, q) # "\n"}}

RECURSIVE StarClass(_, _, _)
GrowClass(s, P, N, class) == IF N = P THEN P ELSE StarClass(s, N, class)
StarClass(s, P, class) == GrowClass(s, P, P \cup StepClass(s, P, class), class)

\* class+
PlusClass(s, P, class) == StarClass(s, StepClass(s, P, class), class)

\* [0-9]{1,3}
UpTo2Digits(s, P) == P \cup StepClass(s, P, ClassDigit)
Digits1to3(s, P) ==
    UpTo2Digits(s, UpTo2Digits(s, StepClass(s, P, ClassDigit)))

\* [0-9]{1,3}.
DigitsAny(s, P) == StepAny(s, Digits1to3(s, P))

\* (?:[0-9]{1,3}.){3}[0-9]{1,3}
MatchIpv4Like(s, P) ==
    Digits1to3(s, DigitsAny(s, DigitsAny(s, DigitsAny(s, P))))

\* [a-f0-9:]+:+
ColonGroup(s, P) == PlusClass(s, PlusClass(s, P, ClassHexColon), {":"})

RECURSIVE ColonGroupStar(_, _)
GrowColonGroup(s, P, N) == IF N = P THEN P ELSE ColonGroupStar(s, N)
ColonGroupStar(s, P) == GrowColonGroup(s, P, P \cup ColonGroup(s, P))

\* ([a-f0-9:]+:+)+[a-f0-9]+
MatchIpv6Like(s, P) ==
    PlusClass(s, ColonGroupStar(s, ColonGroup(s, P)), ClassHex)

\* The alternation, anchored at both ends.
MatchEither(s, P) ==
    (Len(s) + 1) \in (MatchIpv4Like(s, P) \cup MatchIpv6Like(s, P))

\* re_ip46.is_match(path): ^/( ipv4-like | ipv6-like )$
IsMatch(path) == MatchEither(path, StepClass(path, {1}, {"/"}))

(***************************************************************************)
(* Bounds and inputs                                                       *)
(***************************************************************************)
\* Requests in flight at once, and clock ticks of half a ttl.
NReq == 2
MaxTicks == 2

Methods == {"GET", "POST"}

\* Request paths: addresses inside and outside the published ranges,
\* dotted forms that are no address, texts of other shapes, and IPv6
\* addresses in their compressed, upper case and embedded IPv4 forms.
Paths == { "/151.101.0.1", "/151.102.0.0", "/8.8.8.8", "/999.1.1.1", "/1.2.3",
           "/not-an-ip", "/1a2b3c4", "/1:2:3",
           "/2a04:4e40:7f6:9100:f8c9:7bf6:e4f5:c5f3",
           "/240d:1a:7f6:9100:f8c9:7bf6:e4f5:c5f3",
           "/2a04:4e40::1", "/2a04:4e40::", "/2A04:4E40::1", "/::ffff:151.101.0.1" }

\* A response body of the backend: a json document with the two lists, or
\* a body that is no such document.
Body(v4, v6) == [json |-> TRUE, addresses |-> v4, ipv6_addresses |-> v6]
NotJson == [json |-> FALSE, addresses |-> <<>>, ipv6_addresses |-> <<>>]

\* Lists of CIDR entries: well formed ones, one with host bits set, and
\* ones with an address or a prefix length out of range, before and after
\* an entry that matches.
V4Lists == { <<>>,
             <<"23.235.32.0/20", "151.101.0.0/16">>,
             <<"151.101.7.9/16">>,
             <<"151.101.0.0/16", "999.1.1.1/8">>,
             <<"10.0.0.0/33", "151.101.0.0/16">> }
V6Lists == { <<>>,
             <<"2a04:4e40::/32">>,
             <<"2a04:4e40::/129">>,
             <<"2a04:4e40::/32", "2a04:4e40::/129">> }
JsonDocs == {Body(v4, v6) : v4 \in V4Lists, v6 \in V6Lists}

\* What req_backend.send gives: an error, or a response with a body.
SendErr == [ok |-> FALSE, body |-> NotJson]
SendOk(body) == [ok |-> TRUE, body |-> body]
Outcomes == {SendErr} \cup {SendOk(b) : b \in JsonDocs \cup {NotJson}}

\* The paths and bodies of the runs with several requests and the cache.
LivePaths == { "/151.101.0.1", "/999.1.1.1", "/2a04:4e40::" }
LiveBodies == { NotJson, Body(<<>>, <<>>),
                Body(<<"23.235.32.0/20", "151.101.0.0/16">>, <<"2a04:4e40::/32">>) }

\* Networks and addresses for the runs of contains.
V4Bases == { "151.101.0.0", "151.101.7.9", "0.0.0.0", "255.255.255.255", "151.101.0.1" }
V4Addrs == { "151.101.0.1", "151.101.255.255", "151.102.0.0", "151.100.255.255",
             "151.101.7.9", "8.8.8.8", "0.0.0.0", "255.255.255.255" }
V6Bases == { "2a04:4e40::", "2a04:4e40:7f6:9100:f8c9:7bf6:e4f5:c5f3", "::",
             "2a04:4e40::1:0:1" }
V6Addrs == { "2a04:4e40:7f6:9100:f8c9:7bf6:e4f5:c5f3",
             "240d:1a:7f6:9100:f8c9:7bf6:e4f5:c5f3",
             "2a04:4e40:7f6:9100:f8c9:7bf6:e4f5:c5f2",
             "2a04:4e40::", "2a04:4e41::", "::" }

(***************************************************************************)
(* The handler                                                             *)
(***************************************************************************)
VARIABLES
    reqs,       \* the bag of requests in flight: where each is in main, what it holds
    cache,      \* the platform's cached backend response
    now,        \* the clock, in seconds
    sent,       \* the bodies the backend has returned so far
    delivered,  \* the request answered by the latest step, with its response
    call,       \* one run of main from the request to the response
    probe       \* one run of contains

vars == <<reqs, cache, now, sent, delivered, call, probe>>

VALID_METHODS == {"GET"}

MethodNotAllowed == [status |-> 404, body |-> "Only GET method is allowed"]
InvalidAddress == [status |-> 404, body |-> "Valid IP address not found"]
\* main returned Err: the runtime answers with a server error.
ServerError == [status |-> 500, body |-> ""]
\* with_body_json(&IpCheckResult { is_fastly_ip })
IpCheckResult(is_fastly_ip) ==
    [status |-> 200,
     body |-> IF is_fastly_ip THEN "{\"is_fastly_ip\":true}" ELSE "{\"is_fastly_ip\":false}"]
Pass == [status |-> 0, body |-> ""]
NoResponse == [status |-> 0, body |-> "-"]

PrecheckPathFirst(method, path) ==
    IF ~IsMatch(path) THEN InvalidAddress
    ELSE IF method \notin VALID_METHODS THEN MethodNotAllowed
    ELSE Pass

\* The method filter, then the shape filter.
Precheck(method, path) ==
    IF method \notin VALID_METHODS THEN MethodNotAllowed
    ELSE IF ~IsMatch(path) THEN InvalidAddress
    ELSE Pass

\* with_ttl(60 * 60 * 24 * 7)
TTL == 60 * 60 * 24 * 7
TickLen == TTL \div 2

NoEntry == [present |-> FALSE, body |-> NotJson, at |-> 0]
CacheFresh(c, t) == c.present /\ t - c.at < TTL

CacheInsertByField(c, body, t) ==
    IF c.present
    THEN [c EXCEPT !.body.addresses = body.addresses, !.body.json = body.json, !.at = t]
    ELSE [present |-> TRUE, body |-> body, at |-> t]

\* The platform stores the backend's response whole.
CacheInsert(c, body, t) == [present |-> TRUE, body |-> body, at |-> t]

\* ipv4net.parse::<Ipv4Net>() for an IPv4 candidate, ipv6net.parse::<Ipv6Net>()
\* for an IPv6 one.
ParseNet(family, s) == IF family = "v4" THEN ParseIpv4Net(s) ELSE ParseIpv6Net(s)

RECURSIVE Scan(_, _, _)
ScanEntry(list, i, ip, net) ==
    IF ~net.ok THEN ServerError
    ELSE IF Contains(net, ip) THEN IpCheckResult(TRUE)
    ELSE Scan(list, i + 1, ip)

\* The for loop over one family's entries: each entry is parsed when the
\* loop reaches it, and the first network that contains ip ends the loop.
Scan(list, i, ip) ==
    IF i > Len(list) THEN IpCheckResult(FALSE)
    ELSE ScanEntry(list, i, ip, ParseNet(ip.family, list[i]))

RECURSIVE AllParse(_, _, _)
AllParse(list, i, family) ==
    i > Len(list) \/ (ParseNet(family, list[i]).ok /\ AllParse(list, i + 1, family))

ClassifyParsedBothLists(ip_list, ipv4, ipv6) ==
    IF ipv4.family # "v4" /\ ipv6.family # "v6" THEN InvalidAddress
    ELSE IF ~(AllParse(ip_list.addresses, 1, "v4") /\ AllParse(ip_list.ipv6_addresses, 1, "v6"))
    THEN ServerError
    ELSE IF ipv4.family = "v4" THEN Scan(ip_list.addresses, 1, ipv4)
    ELSE Scan(ip_list.ipv6_addresses, 1, ipv6)

\* The if / else if / else over the two strict parses of the candidate.
ClassifyParsed(ip_list, ipv4, ipv6) ==
    IF ipv4.family = "v4" THEN Scan(ip_list.addresses, 1, ipv4)
    ELSE IF ipv6.family = "v6" THEN Scan(ip_list.ipv6_addresses, 1, ipv6)
    ELSE InvalidAddress

\* The strict parse of the candidate and the loop over its family's list.
Classify(ip_addr, ip_list) ==
    ClassifyParsed(ip_list, ParseIpv4Addr(ip_addr), ParseIpv6Addr(ip_addr))

\* path[1..]
Token(path) == SubSeq(path, 2, Len(path))

\* take_body_json::<FastlyIpList>, then the classification.
Respond(path, body) ==
    IF ~body.json THEN ServerError
    ELSE Classify(Token(path), body)

\* main, from the request to the response, given what send returns.
AfterPrecheck(pre, path, outcome) ==
    IF pre # Pass THEN pre
    ELSE IF ~outcome.ok THEN ServerError
    ELSE Respond(path, outcome.body)

Handle(method, path, outcome) == AfterPrecheck(Precheck(method, path), path, outcome)

\* A request in flight: waiting for the backend (pc "send": upstream is
\* "fetched") or holding the body of the response (pc "classify").  stale
\* tells that the cache held an expired json document when send missed.
InFlight(pc, method, path, body, upstream, stale) ==
    [pc |-> pc, method |-> method, path |-> path, body |-> body,
     upstream |-> upstream, stale |-> stale]

\* An answered request: its response, what send did for it ("none": it was
\* not called, "hit", "fetched", "error"), and whether the cache held no
\* fresh entry when main ran.
Delivery(method, path, response, upstream, missed, stale) ==
    [method |-> method, path |-> path, response |-> response,
     upstream |-> upstream, missed |-> missed, stale |-> stale]
NoDelivery == Delivery("", "", NoResponse, "none", FALSE, FALSE)

NoCall == [pc |-> "off", method |-> "", path |-> "", outcome |-> SendErr,
           response |-> NoResponse]
NoProbe == [pc |-> "off", family |-> "", base |-> "", len |-> 0, ip |-> "",
            result |-> FALSE]

\* The cache holds a json document, whatever its age.
HoldsList(c) == c.present /\ c.body.json

Init ==
    /\ reqs = EmptyBag
    /\ cache = NoEntry
    /\ now = 0
    /\ sent = {}
    /\ delivered = NoDelivery
    /\ call = NoCall
    /\ probe = NoProbe

\* The request after the two filters: answered with a 404, or in flight
\* with what req_backend.send found in the platform's cache.
Filtered(method, path, pre, fresh) ==
    IF pre # Pass
    THEN /\ delivered' = Delivery(method, path, pre, "none", ~fresh, FALSE)
         /\ reqs' = reqs
    ELSE /\ BagCardinality(reqs) < NReq
         /\ delivered' = NoDelivery
         /\ reqs' = reqs (+) SetToBag({
                IF fresh THEN InFlight("classify", method, path, cache.body, "hit", FALSE)
                ELSE InFlight("send", method, path, NotJson, "fetched", HoldsList(cache))})

\* A request arrives: main runs through the filters and, when they pass,
\* calls req_backend.send, which the cache answers when its entry is fresh.
Receive ==
    /\ \E method \in Methods, path \in LivePaths :
         Filtered(method, path, Precheck(method, path), CacheFresh(cache, now))
    /\ UNCHANGED <<cache, now, sent, call, probe>>

\* send fails: main returns the error.
BackendError ==
    /\ \E q \in BagToSet(reqs) :
         /\ q.pc = "send"
         /\ reqs' = reqs (-) SetToBag({q})
         /\ delivered' = Delivery(q.method, q.path, ServerError, "error", TRUE, q.stale)
    /\ UNCHANGED <<cache, now, sent, call, probe>>

\* send returns the backend's response, which the platform keeps for the
\* ttl when it is cacheable.
BackendResponse ==
    /\ \E q \in BagToSet(reqs), doc \in LiveBodies, cacheable \in BOOLEAN :
         /\ q.pc = "send"
         /\ reqs' = (reqs (-) SetToBag({q})) (+)
                    SetToBag({InFlight("classify", q.method, q.path, doc, "fetched",
                                       q.stale)})
         /\ cache' = IF cacheable THEN CacheInsert(cache, doc, now) ELSE cache
         /\ sent' = sent \cup {doc}
    /\ delivered' = NoDelivery
    /\ UNCHANGED <<now, call, probe>>

\* The rest of main: the json body, the strict parse, the loop, the answer.
Answer ==
    /\ \E q \in BagToSet(reqs) :
         /\ q.pc = "classify"
         /\ reqs' = reqs (-) SetToBag({q})
         /\ delivered' = Delivery(q.method, q.path, Respond(q.path, q.body), q.upstream,
                                  q.upstream = "fetched", q.stale)
    /\ UNCHANGED <<cache, now, sent, call, probe>>

Tick ==
    /\ now < MaxTicks * TickLen
    /\ now' = now + TickLen
    /\ delivered' = NoDelivery
    /\ UNCHANGED <<reqs, cache, sent, call, probe>>

Next ==
    \/ Receive
    \/ BackendError
    \/ BackendResponse
    \/ Answer
    \/ Tick

Spec == Init /\ [][Next]_vars

(***************************************************************************)
(* One request, as a function of its method, its path and what the         *)
(* backend returns                                                         *)
(***************************************************************************)
InitHandle ==
    /\ reqs = EmptyBag
    /\ cache = NoEntry
    /\ now = 0
    /\ sent = {}
    /\ delivered = NoDelivery
    /\ probe = NoProbe
    /\ \E method \in Methods, path \in Paths, outcome \in Outcomes :
         call = [pc |-> "ready", method |-> method, path |-> path,
                 outcome |-> outcome, response |-> NoResponse]

RunHandle ==
    /\ call.pc = "ready"
    /\ call' = [call EXCEPT !.pc = "done",
                            !.response = Handle(call.method, call.path, call.outcome)]
    /\ UNCHANGED <<reqs, cache, now, sent, delivered, probe>>

SpecHandle == InitHandle /\ [][RunHandle]_vars

(***************************************************************************)
(* contains, on a network written as text and an address                   *)
(***************************************************************************)
InitContains ==
    /\ reqs = EmptyBag
    /\ cache = NoEntry
    /\ now = 0
    /\ sent = {}
    /\ delivered = NoDelivery
    /\ call = NoCall
    /\ \/ \E base \in V4Bases, len \in 0..MaxIpv4PrefixLen, ip \in V4Addrs :
            probe = [pc |-> "ready", family |-> "v4", base |-> base, len |-> len,
                     ip |-> ip, result |-> FALSE]
       \/ \E base \in V6Bases, len \in 0..MaxIpv6PrefixLen, ip \in V6Addrs :
            probe = [pc |-> "ready", family |-> "v6", base |-> base, len |-> len,
                     ip |-> ip, result |-> FALSE]

\* The text of a network: the base address, a slash, the prefix length.
NetText(base, len) == base \o "/" \o ToString(len)
ParseAddr(family, s) == IF family = "v4" THEN ParseIpv4Addr(s) ELSE ParseIpv6Addr(s)

\* let net = text.parse(); net.contains(&ip)
RunContains ==
    /\ probe.pc = "ready"
    /\ probe' = [probe EXCEPT !.pc = "done",
                   !.result = Contains(ParseNet(probe.family, NetText(probe.base, probe.len)),
                                       ParseAddr(probe.family, probe.ip))]
    /\ UNCHANGED <<reqs, cache, now, sent, delivered, call>>

SpecContains == InitContains /\ [][RunContains]_vars

(***************************************************************************)
(* What the properties speak of                                            *)
(***************************************************************************)
\* The candidate of a path, when its token is an address.
Candidate(path) ==
    IF ParseIpv4Addr(Token(path)).family = "v4" THEN ParseIpv4Addr(Token(path))
    ELSE ParseIpv6Addr(Token(path))
StrictValid(path) == Candidate(path) # NotAnAddress

FamilyList(body, family) ==
    IF family = "v4" THEN body.addresses ELSE body.ipv6_addresses

WellFormed(body) ==
    /\ \A i \in 1..Len(body.addresses) : ParseIpv4Net(body.addresses[i]).ok
    /\ \A i \in 1..Len(body.ipv6_addresses) : ParseIpv6Net(body.ipv6_addresses[i]).ok

\* Bit i of an address, counted from the most significant one.
BitAt(groups, i, w) ==
    (groups[((i - 1) \div w) + 1] \div Pow2(w - 1 - ((i - 1) % w))) % 2

\* The len most significant bits of two addresses are the same.
SamePrefix(a, b, len, w) == \A i \in 1..len : BitAt(a, i, w) = BitAt(b, i, w)

\* Some well formed entry of the list has the address under its prefix.
InSomePrefix(list, ip) ==
    \E i \in 1..Len(list) :
        /\ ParseNet(ip.family, list[i]).ok
        /\ SamePrefix(ParseNet(ip.family, list[i]).addr, ip.groups,
                      ParseNet(ip.family, list[i]).prefix_len, GroupBits(ip.family))

\* The orders in which the entries of a list can come.
Reorderings(list) ==
    {[i \in 1..Len(list) |-> list[f[i]]] : f \in Permutations(1..Len(list))}

WithFamilyList(body, family, list) ==
    IF family = "v4" THEN [body EXCEPT !.addresses = list]
    ELSE [body EXCEPT !.ipv6_addresses = list]

CallDone == call.pc = "done"
CallGotDocument == call.outcome.ok /\ call.outcome.body.json
Answered == delivered # NoDelivery

(***************************************************************************)
(* Properties                                                              *)
(***************************************************************************)
\* C1: a GET request whose token strictly parses as an address, with a
\* fetched document whose entries are all well formed, is answered 200 with
\* is_fastly_ip true exactly when a prefix of the candidate's family has the
\* address under it.
C1_ValidAddressIsClassified ==
    (CallDone /\ call.method = "GET" /\ StrictValid(call.path)
       /\ CallGotDocument /\ WellFormed(call.outcome.body))
    => call.response =
         IpCheckResult(InSomePrefix(FamilyList(call.outcome.body, Candidate(call.path).family),
                                    Candidate(call.path)))

\* C2: a GET request whose token fails the shape filter or the strict
\* parse is answered 404 "Valid IP address not found", whatever the backend
\* returns.
C2_InvalidAddressIsNotFound ==
    (CallDone /\ call.method = "GET" /\ (~IsMatch(call.path) \/ ~StrictValid(call.path)))
    => call.response = InvalidAddress

\* C3: a request whose method is not GET is answered 404 "Only GET method
\* is allowed" whatever its path, and send is not called for it: no such
\* request is ever in flight at the backend.
C3_OtherMethodsRejectedFirst ==
    /\ (Answered /\ delivered.method # "GET")
         => (delivered.response = MethodNotAllowed /\ delivered.upstream = "none")
    /\ \A q \in BagToSet(reqs) : q.method = "GET"

C3_Witness ==
    /\ delivered.method = "POST"
    /\ delivered.path = "/2a04:4e40::"
    /\ delivered.response = MethodNotAllowed
    /\ BagCardinality(reqs) > 0

\* C4: when an entry of either list of the fetched document is malformed,
\* a request with a valid candidate is not answered 200.
C4_MalformedEntryFailsAll ==
    (CallDone /\ call.method = "GET" /\ StrictValid(call.path)
       /\ CallGotDocument /\ ~WellFormed(call.outcome.body))
    => call.response.status # 200

\* C5: for a GET request with a valid candidate, the backend is fetched
\* exactly when the cache held no fresh entry as the request came.
C5_FetchExactlyOnMiss ==
    (Answered /\ delivered.method = "GET" /\ StrictValid(delivered.path))
    => (delivered.upstream \in {"fetched", "error"} <=> delivered.missed)

\* C6: a request with a valid candidate that finds an expired list in the
\* cache and goes to the backend is answered 200, also when the fetch fails
\* or returns a body that does not parse.
C6_StaleFallback ==
    (Answered /\ StrictValid(delivered.path) /\ delivered.stale)
    => delivered.response.status = 200

\* C7: contains is true exactly when the prefix_len most significant bits
\* of the address are those of the network's base, whatever the base's
\* other bits are.
C7_ContainsIsMaskedComparison ==
    (probe.pc = "done")
    => (probe.result <=>
          SamePrefix(ParseAddr(probe.family, probe.base).groups,
                     ParseAddr(probe.family, probe.ip).groups,
                     probe.len, GroupBits(probe.family)))

C7_Witness ==
    /\ probe.pc = "done"
    /\ probe.base = "151.101.7.9"
    /\ probe.len = 16
    /\ probe.ip = "151.101.0.1"
    /\ probe.result

\* C8: the lists a request classifies against, and those the cache holds,
\* are always one whole body that the backend returned.
C8_ListFromOneFetch ==
    /\ \A q \in BagToSet(reqs) : q.pc = "classify" => q.body \in sent
    /\ cache.present => cache.body \in sent

C8_Witness ==
    /\ Cardinality(sent) >= 2
    /\ \E q \in BagToSet(reqs) : q.pc = "classify" /\ q.upstream = "hit" /\ q.body.json
    /\ \E q \in BagToSet(reqs) : q.pc = "send"

\* C9: the response to a valid candidate is the same for every document
\* that has the same list of the candidate's family, whatever the other
\* family's list holds.
C9_OtherFamilyIgnored ==
    (CallDone /\ call.method = "GET" /\ StrictValid(call.path) /\ CallGotDocument)
    => \A d \in JsonDocs :
         FamilyList(d, Candidate(call.path).family)
           = FamilyList(call.outcome.body, Candidate(call.path).family)
         => Handle(call.method, call.path, SendOk(d)) = call.response

C9_Witness ==
    /\ CallDone
    /\ call.method = "GET"
    /\ call.path = "/151.101.0.1"
    /\ CallGotDocument
    /\ call.outcome.body.ipv6_addresses = <<"2a04:4e40::/129">>
    /\ call.response = IpCheckResult(TRUE)

\* C10: the response to a valid candidate is the same for every order of
\* the entries of its family's list.
C10_OrderIndependent ==
    (CallDone /\ call.method = "GET" /\ StrictValid(call.path) /\ CallGotDocument)
    => \A list \in Reorderings(FamilyList(call.outcome.body, Candidate(call.path).family)) :
         Handle(call.method, call.path,
                SendOk(WithFamilyList(call.outcome.body, Candidate(call.path).family, list)))
           = call.response

=============================================================================
